---- MODULE Spec2Model ----
(***************************************************************************)
(* Model of app/main.py: the obsolete credit-management object scanner.    *)
(*                                                                         *)
(* Text is a sequence of characters, so that the three regular             *)
(* expressions (word boundaries, case folding, lazy quantifier, leftmost   *)
(* non-overlapping finditer) are computed character by character.  A       *)
(* character is a one-character string for the code points up to U+00FF,   *)
(* and its name for the code points above that the program's patterns and  *)
(* str.upper reach: U+017F, U+0130, U+0131, U+212A, U+039C, U+0178.  The    *)
(* patterns are str patterns compiled without re.ASCII, so \w, \b and      *)
(* re.IGNORECASE follow Unicode.  Python None for a text value is the      *)
(* one-element sequence None; remediation notes are opaque strings, and    *)
(* NoNote is Python None for a note.                                       *)
(***************************************************************************)
EXTENDS Integers, Sequences, FiniteSets, TLC

VARIABLES code, pieces, pc, unit, stmts, usage, hits, metadata

vars == <<code, pieces, pc, unit, stmts, usage, hits, metadata>>

\* Largest number of text pieces a client puts into one unit's source text.
MaxPieces == 2

None == <<"None">>
NoNote == "None"

----------------------------------------------------------------------------
\* Characters

LowerLetters == <<"a","b","c","d","e","f","g","h","i","j","k","l","m",
                  "n","o","p","q","r","s","t","u","v","w","x","y","z">>
UpperLetters == <<"A","B","C","D","E","F","G","H","I","J","K","L","M",
                  "N","O","P","Q","R","S","T","U","V","W","X","Y","Z">>
Digits == {"0","1","2","3","4","5","6","7","8","9"}

\* the cased letters of U+00C0..U+00FE, lower case and upper case
Latin1Lower == <<"à","á","â","ã","ä","å","æ","ç","è","é","ê","ë","ì",
                 "í","î","ï","ð","ñ","ò","ó","ô","õ","ö","ø","ù","ú",
                 "û","ü","ý","þ">>
Latin1Upper == <<"À","Á","Â","Ã","Ä","Å","Æ","Ç","È","É","Ê","Ë","Ì",
                 "Í","Î","Ï","Ð","Ñ","Ò","Ó","Ô","Õ","Ö","Ø","Ù","Ú",
                 "Û","Ü","Ý","Þ">>

\* the characters above U+00FF, by name
LONG_S == "LONG_S"                            \* U+017F
DOTLESS_I == "DOTLESS_I"                      \* U+0131
DOTTED_I == "DOTTED_I"                        \* U+0130
KELVIN == "KELVIN"                            \* U+212A
CAPITAL_MU == "CAPITAL_MU"                    \* U+039C
CAPITAL_Y_DIAERESIS == "CAPITAL_Y_DIAERESIS"  \* U+0178

Range(s) == {s[i] : i \in 1..Len(s)}

RECURSIVE Flatten(_)
Flatten(ss) == IF ss = <<>> THEN <<>> ELSE Head(ss) \o Flatten(Tail(ss))

\* \w of a str pattern: the alphanumeric characters and "_"
WordChars ==
    Range(LowerLetters) \cup Range(UpperLetters) \cup Digits \cup {"_"}
        \cup Range(Latin1Lower) \cup Range(Latin1Upper)
        \cup {"ª","µ","º","ß","ÿ","²","³","¹","¼","½","¾"}
        \cup {LONG_S, DOTLESS_I, DOTTED_I, KELVIN, CAPITAL_MU, CAPITAL_Y_DIAERESIS}

\* str.upper of one character, as a text, where it changes the character
UpperOf ==
    [c \in Range(LowerLetters) |->
        << UpperLetters[CHOOSE i \in 1..Len(LowerLetters) : LowerLetters[i] = c] >>]
    @@ [c \in Range(Latin1Lower) |->
        << Latin1Upper[CHOOSE i \in 1..Len(Latin1Lower) : Latin1Lower[i] = c] >>]
    @@ ("ß" :> <<"S","S">>) @@ ("µ" :> <<CAPITAL_MU>>)
    @@ ("ÿ" :> <<CAPITAL_Y_DIAERESIS>>)
    @@ (LONG_S :> <<"S">>) @@ (DOTLESS_I :> <<"I">>)

\* str.upper of the one-character string c, as a text
ToUpper(c) == IF c \in DOMAIN UpperOf THEN UpperOf[c] ELSE <<c>>

\* str.upper
Upper(s) == Flatten([i \in 1..Len(s) |-> ToUpper(s[i])])

\* re.IGNORECASE: the characters the re module takes for one another, each
\* given the lower-case character of its class
IgnoreCaseKey ==
    [c \in Range(UpperLetters) |->
        LowerLetters[CHOOSE i \in 1..Len(UpperLetters) : UpperLetters[i] = c]]
    @@ [c \in Range(Latin1Upper) |->
        Latin1Lower[CHOOSE i \in 1..Len(Latin1Upper) : Latin1Upper[i] = c]]
    @@ (KELVIN :> "k") @@ (LONG_S :> "s")
    @@ (DOTLESS_I :> "i") @@ (DOTTED_I :> "i")
    @@ (CAPITAL_MU :> "µ") @@ (CAPITAL_Y_DIAERESIS :> "ÿ")

\* the class of the character c under re.IGNORECASE
IgnoreCase(c) == IF c \in DOMAIN IgnoreCaseKey THEN IgnoreCaseKey[c] ELSE c

\* txt[a:b] with 0 <= a <= b <= len(txt)
Slice(txt, a, b) == SubSeq(txt, a + 1, b)

----------------------------------------------------------------------------
\* Static data

KNKK  == <<"K","N","K","K">>
KNKA  == <<"K","N","K","A">>
T024B == <<"T","0","2","4","B">>
T024P == <<"T","0","2","4","P">>
T691B == <<"T","6","9","1","B">>
VBAK  == <<"V","B","A","K">>

KNKLI == <<"K","N","K","L","I">>
KLIMK == <<"K","L","I","M","K">>
CRBLB == <<"C","R","B","L","B">>
CTLPC == <<"C","T","L","P","C">>
SAUFT == <<"S","A","U","F","T">>
NXTRV == <<"N","X","T","R","V">>
SBGRP == <<"S","B","G","R","P">>
GRUPP == <<"G","R","U","P","P">>

Dash == <<"-">>

TABLES == <<KNKK, KNKA, T024B, T024P, T691B, VBAK>>
FIELDS == <<KNKLI, KLIMK, CRBLB, CTLPC, SAUFT, NXTRV, SBGRP, GRUPP>>

\* the notes are opaque to the program; an en dash in a note is written "-"
REPLACEMENTS ==
    << <<KNKK \o Dash \o KNKLI, "UKMBP_CMS-PARTNER / UKMBP_CMS_SGM-PARTNER (Business Partner key)">>,
       <<KNKK \o Dash \o KLIMK, "UKMBP_CMS_SGM-CREDIT_LIMIT (Credit Limit, per segment)">>,
       <<KNKK \o Dash \o CRBLB, "UKMBP_CMS_SGM-XBLOCKED (Blocked in Credit Mgmt)">>,
       <<KNKK \o Dash \o CTLPC, "UKMBP_CMS-RISK_CLASS (Risk Category)">>,
       <<KNKK \o Dash \o SAUFT, "Calculated dynamically from UKM_ITEM (COMM_TYP 100, 400, 500) - See Note 2508755">>,
       <<KNKK \o Dash \o NXTRV, "No direct equivalent - see KBA 2371714">>,
       <<KNKA, "No direct equivalent - Main Segment (0000) aggregates exposure (Note 2801882)">>,
       <<T024P, "BUT050 (RelCat TUKMSB0 - 'Credit Mgmt is managed by')">>,
       <<T024B \o Dash \o SBGRP, "BUT050 (RelCat TUKMSBG - 'is in Credit Analyst Group')">>,
       <<T691B, "Obsolete - not carried forward">>,
       <<VBAK \o Dash \o SBGRP, "Obsolete - not filled in FSCM">>,
       <<VBAK \o Dash \o GRUPP, "Obsolete - not filled in FSCM">> >>

\* REPLACEMENTS.get(key)
ReplacementsGet(key) ==
    IF \E i \in 1..Len(REPLACEMENTS) : REPLACEMENTS[i][1] = key
      THEN REPLACEMENTS[CHOOSE i \in 1..Len(REPLACEMENTS) : REPLACEMENTS[i][1] = key][2]
      ELSE NoNote

PROG == <<"P","R","O","G">>
TRAN == <<"T","R","A","N">>
TABL == <<"T","A","B","L">>
VIEW == <<"V","I","E","W">>
RAW_CODE == <<"r","a","w","_","c","o","d","e">>

NACC == <<"_","N","A","C","C">>
RFDKLI == <<"R","F","D","K","L","I">>
RFDKLI30 == RFDKLI \o <<"3","0">>

BANNED_PROG ==
    << <<"M","F","0","1","A","O","0","0">>, <<"M","F","0","2","C","O","0","0">>,
       <<"R","F","C","M","C","R","C","V">>, <<"R","F","C","M","D","E","C","V">>,
       RFDKLI \o <<"1","0">>, RFDKLI \o <<"2","0">>, RFDKLI \o <<"2","0">> \o NACC,
       RFDKLI30, RFDKLI \o <<"4","0">>, RFDKLI \o <<"4","0">> \o NACC,
       RFDKLI \o <<"4","1">>, RFDKLI \o <<"4","1">> \o NACC, RFDKLI \o <<"4","2">>,
       RFDKLI \o <<"4","3">>, RFDKLI \o <<"5","0">>, RFDKLI \o <<"A","B">>,
       RFDKLI \o <<"A","B">> \o NACC, <<"R","F","D","K","V","Z","0","0">> \o NACC >>
BANNED_TRAN ==
    << <<"O","B","0","2">>,
       <<"S","_","E","R","9","_","1","1","0","0","0","0","7","4">> >>
BANNED_TABL == <<T024P, T024B, T691B, KNKK, KNKA>>
BANNED_VIEW == << <<"V","_">> \o T024B >>

\* BANNED_OBJECTS.get(unit_type, [])
BannedObjectsGet(unit_type) ==
    CASE unit_type = PROG -> BANNED_PROG
      [] unit_type = TRAN -> BANNED_TRAN
      [] unit_type = TABL -> BANNED_TABL
      [] unit_type = VIEW -> BANNED_VIEW
      [] OTHER -> <<>>

ELIMINATE_NOTE == "Eliminate - Obsolete in S/4HANA Credit Management (2706489)"

----------------------------------------------------------------------------
\* Regular expressions (re module semantics)

\* a or b, for text values: None and the empty string are falsy
Or(a, b) == IF a = None \/ a = <<>> THEN b ELSE a

Min(S) == CHOOSE x \in S : \A y \in S : x <= y

\* \b at offset p of txt (between txt[p-1] and txt[p], 0-based)
AtBoundary(txt, p) ==
    (p > 0 /\ txt[p] \in WordChars) # (p < Len(txt) /\ txt[p + 1] \in WordChars)

\* the literal lit matches txt at offset p under re.IGNORECASE
LitAt(txt, p, lit) ==
    /\ p + Len(lit) <= Len(txt)
    /\ \A i \in 1..Len(lit) : IgnoreCase(txt[p + i]) = IgnoreCase(lit[i])

\* re.search(rf"\b{word}\b", snippet, re.IGNORECASE) is not None
Search(word, snippet) ==
    \E p \in 0..(Len(snippet) - Len(word)) :
        /\ AtBoundary(snippet, p)
        /\ LitAt(snippet, p, word)
        /\ AtBoundary(snippet, p + Len(word))

SELECT == <<"S","E","L","E","C","T">>
UPDATE == <<"U","P","D","A","T","E">>
INSERT == <<"I","N","S","E","R","T">>
DELETE == <<"D","E","L","E","T","E">>
KEYWORDS == <<SELECT, UPDATE, INSERT, DELETE>>

\* [\s\S]+?(?:\.|\Z) with pos characters already consumed by the lazy
\* quantifier: the end offset of the match
RECURSIVE LazyEnd(_, _)
LazyEnd(txt, pos) ==
    IF pos < Len(txt) /\ txt[pos + 1] = "."
      THEN pos + 1
      ELSE IF pos = Len(txt) THEN pos ELSE LazyEnd(txt, pos + 1)

\* the match object of a pattern with one group, which starts the match and
\* ends at g1end
Match1(txt, start, end, g1end) ==
    [start |-> start, end |-> end, g1 |-> Slice(txt, start, g1end)]

\* the match object of a pattern with two groups: group 1 starts the match
\* and ends at g1end, group 2 starts at g2start and ends the match
Match2(txt, start, end, g1end, g2start) ==
    [start |-> start, end |-> end,
     g1 |-> Slice(txt, start, g1end), g2 |-> Slice(txt, g2start, end)]

\* the keyword alternatives of STMT_RE with which the pattern matches at p
StmtAlternatives(txt, p) ==
    {k \in 1..Len(KEYWORDS) :
        /\ LitAt(txt, p, KEYWORDS[k])
        /\ AtBoundary(txt, p + Len(KEYWORDS[k]))
        /\ p + Len(KEYWORDS[k]) < Len(txt)}

\* STMT_RE matching at p with its keyword ending at offset q
StmtMatchFrom(txt, p, q) == << Match1(txt, p, LazyEnd(txt, q + 1), q) >>

\* STMT_RE.match(txt, p): <<>> or a one-element sequence holding the match
StmtMatchAt(txt, p) ==
    IF ~AtBoundary(txt, p) \/ StmtAlternatives(txt, p) = {}
      THEN <<>>
      ELSE StmtMatchFrom(txt, p, p + Len(KEYWORDS[Min(StmtAlternatives(txt, p))]))

\* the field alternatives of FIELD_REF_RE that match at offset a and end at a
\* word boundary
FieldAlternatives(txt, a) ==
    {j \in 1..Len(FIELDS) :
        /\ LitAt(txt, a, FIELDS[j])
        /\ AtBoundary(txt, a + Len(FIELDS[j]))}

\* the table alternatives of FIELD_REF_RE with which the pattern matches at p
FieldRefAlternatives(txt, p) ==
    {k \in 1..Len(TABLES) :
        /\ LitAt(txt, p, TABLES[k])
        /\ LitAt(txt, p + Len(TABLES[k]), Dash)
        /\ FieldAlternatives(txt, p + Len(TABLES[k]) + 1) # {}}

\* FIELD_REF_RE matching at p with its table ending at offset a
FieldRefMatchFrom(txt, p, a) ==
    << Match2(txt, p, a + 1 + Len(FIELDS[Min(FieldAlternatives(txt, a + 1))]), a, a + 1) >>

\* FIELD_REF_RE.match(txt, p): the first table alternative, then the first
\* field alternative, with which the whole pattern matches
FieldRefMatchAt(txt, p) ==
    IF ~AtBoundary(txt, p) \/ FieldRefAlternatives(txt, p) = {}
      THEN <<>>
      ELSE FieldRefMatchFrom(txt, p, p + Len(TABLES[Min(FieldRefAlternatives(txt, p))]))

\* TABLE_REF_RE with a table name that qualifies a field left to FIELD_REF_RE
TableRefAlternatives_Unqualified(txt, p) ==
    {k \in 1..Len(TABLES) :
        /\ LitAt(txt, p, TABLES[k])
        /\ AtBoundary(txt, p + Len(TABLES[k]))
        /\ ~LitAt(txt, p + Len(TABLES[k]), Dash)}

\* the table alternatives of TABLE_REF_RE with which the pattern matches at p
TableRefAlternatives(txt, p) ==
    {k \in 1..Len(TABLES) :
        /\ LitAt(txt, p, TABLES[k])
        /\ AtBoundary(txt, p + Len(TABLES[k]))}

\* TABLE_REF_RE matching at p and ending at offset b
TableRefMatchFrom(txt, p, b) == << Match1(txt, p, b, b) >>

\* TABLE_REF_RE.match(txt, p)
TableRefMatchAt(txt, p) ==
    IF ~AtBoundary(txt, p) \/ TableRefAlternatives(txt, p) = {}
      THEN <<>>
      ELSE TableRefMatchFrom(txt, p, p + Len(TABLES[Min(TableRefAlternatives(txt, p))]))

MatchAt(re, txt, p) ==
    CASE re = "STMT_RE" -> StmtMatchAt(txt, p)
      [] re = "FIELD_REF_RE" -> FieldRefMatchAt(txt, p)
      [] re = "TABLE_REF_RE" -> TableRefMatchAt(txt, p)

\* re.search(txt, pos): the leftmost match starting at or after offset pos
RECURSIVE SearchFrom(_, _, _)
SearchFrom(re, txt, pos) ==
    IF pos > Len(txt)
      THEN <<>>
      ELSE IF MatchAt(re, txt, pos) # <<>>
             THEN MatchAt(re, txt, pos)
             ELSE SearchFrom(re, txt, pos + 1)

\* re.finditer(txt) from offset pos: leftmost matches, none overlapping; the
\* scan resumes at the end of a match, one further after an empty match
RECURSIVE Finditer(_, _, _)
FinditerFrom(re, txt, found) ==
    IF found = <<>>
      THEN <<>>
      ELSE found \o Finditer(re, txt,
                             IF found[1].end = found[1].start
                               THEN found[1].end + 1
                               ELSE found[1].end)

Finditer(re, txt, pos) == FinditerFrom(re, txt, SearchFrom(re, txt, pos))

----------------------------------------------------------------------------
\* find_obsolete_usage

FIELD_REF == <<"F","I","E","L","D","_","R","E","F">>
TABLE_REF == <<"T","A","B","L","E","_","R","E","F">>
OBJECT_REF == <<"O","B","J","E","C","T","_","R","E","F">>

\* the table part of a key: the key up to its first "-"
KeyTable(key) ==
    IF \E i \in 1..Len(key) : key[i] = "-"
      THEN SubSeq(key, 1, Min({i \in 1..Len(key) : key[i] = "-"}) - 1)
      ELSE key

\* the catalogue looked up by the table of the key only
UsageEntry_TableLookup(full, stmt, key, span) ==
    [full |-> full, stmt |-> stmt, object |-> key,
     suggested_statement |-> ReplacementsGet(KeyTable(key)), span |-> span]

UsageEntry(full, stmt, key, span) ==
    [full |-> full, stmt |-> stmt, object |-> key,
     suggested_statement |-> ReplacementsGet(key), span |-> span]

\* the field loop left after its first hit
StmtFieldEntries_FirstFieldOnly(snippet, m, t, found) ==
    IF found # <<>>
      THEN << UsageEntry(snippet, m.g1, t \o Dash \o found[1], <<m.start, m.end>>) >>
      ELSE << UsageEntry(snippet, m.g1, t, <<m.start, m.end>>) >>

\* the entries of one table t of a statement match m with snippet snippet,
\* found being the known fields standing in the snippet, in FIELDS order
StmtFieldEntries(snippet, m, t, found) ==
    IF found # <<>>
      THEN [j \in 1..Len(found) |->
               UsageEntry(snippet, m.g1, t \o Dash \o found[j], <<m.start, m.end>>)]
      ELSE << UsageEntry(snippet, m.g1, t, <<m.start, m.end>>) >>

\* the body of "for t in TABLES" for one statement match with its snippet
StmtTableEntries(snippet, m, t) ==
    IF ~Search(t, snippet)
      THEN <<>>
      ELSE StmtFieldEntries(snippet, m, t,
               SelectSeq(FIELDS, LAMBDA f : Search(f, snippet)))

\* the body of "for stmt in STMT_RE.finditer" for one statement match
StmtEntries(snippet, m) ==
    Flatten([k \in 1..Len(TABLES) |-> StmtTableEntries(snippet, m, TABLES[k])])

\* the statement loop over the matches ms
StmtLoop(txt, ms) ==
    Flatten([i \in 1..Len(ms) |-> StmtEntries(Slice(txt, ms[i].start, ms[i].end), ms[i])])

\* 1) SQL statement scanning
StmtScan(txt) == StmtLoop(txt, Finditer("STMT_RE", txt, 0))

\* the field-reference loop over the matches ms
FieldRefLoop(txt, ms) ==
    [i \in 1..Len(ms) |->
        UsageEntry(Slice(txt, ms[i].start, ms[i].end), FIELD_REF,
                   Upper(ms[i].g1) \o Dash \o Upper(ms[i].g2),
                   <<ms[i].start, ms[i].end>>)]

\* 2) Field references anywhere
FieldRefScan(txt) == FieldRefLoop(txt, Finditer("FIELD_REF_RE", txt, 0))

\* the table-reference loop over the matches ms
TableRefLoop(txt, ms) ==
    [i \in 1..Len(ms) |->
        UsageEntry(Slice(txt, ms[i].start, ms[i].end), TABLE_REF,
                   Upper(ms[i].g1), <<ms[i].start, ms[i].end>>)]

\* 3) Table references anywhere
TableRefScan(txt) == TableRefLoop(txt, Finditer("TABLE_REF_RE", txt, 0))

\* the table pass run before the field pass
ScanText_TablesFirst(t) == StmtScan(t) \o TableRefScan(t) \o FieldRefScan(t)

\* the three passes over the text t = txt or ""
ScanText(t) == StmtScan(t) \o FieldRefScan(t) \o TableRefScan(t)

find_obsolete_usage(txt) == ScanText(Or(txt, <<>>))

----------------------------------------------------------------------------
\* check_banned_objects

\* the name compared without regard to case
check_banned_objects_IgnoreCase(unit_name, unit_type) ==
    IF Upper(unit_name) \in Range(BannedObjectsGet(unit_type))
      THEN << [full |-> unit_name, stmt |-> OBJECT_REF,
               object |-> unit_type \o Dash \o unit_name,
               suggested_statement |-> ELIMINATE_NOTE,
               span |-> <<0, Len(unit_name)>>] >>
      ELSE <<>>

check_banned_objects(unit_name, unit_type) ==
    IF unit_name \in Range(BannedObjectsGet(unit_type))
      THEN << [full |-> unit_name, stmt |-> OBJECT_REF,
               object |-> unit_type \o Dash \o unit_name,
               suggested_statement |-> ELIMINATE_NOTE,
               span |-> <<0, Len(unit_name)>>] >>
      ELSE <<>>

----------------------------------------------------------------------------
\* remediate_credit_fields, for one unit of the batch

TABLE == <<"T","A","B","L","E">>
FIELD == <<"F","I","E","L","D">>

Contains(s, c) == \E i \in 1..Len(s) : s[i] = c

\* the end offset reported one past the match's end
UsageRecord_EndPlusOne(m) ==
    [table |-> None,
     target_type |-> IF ~Contains(m.object, "-") THEN TABLE ELSE FIELD,
     target_name |-> m.object,
     start_char_in_unit |-> m.span[1],
     end_char_in_unit |-> m.span[2] + 1,
     used_fields |-> <<>>,
     ambiguous |-> (m.suggested_statement = NoNote),
     suggested_statement |-> m.suggested_statement,
     suggested_fields |-> None]

\* the target kind with its condition inverted
UsageRecord_KindSwapped(m) ==
    [table |-> None,
     target_type |-> IF Contains(m.object, "-") THEN TABLE ELSE FIELD,
     target_name |-> m.object,
     start_char_in_unit |-> m.span[1],
     end_char_in_unit |-> m.span[2],
     used_fields |-> <<>>,
     ambiguous |-> (m.suggested_statement = NoNote),
     suggested_statement |-> m.suggested_statement,
     suggested_fields |-> None]

\* Step 1: one metadata record per find_obsolete_usage match
UsageRecord(m) ==
    [table |-> None,
     target_type |-> IF ~Contains(m.object, "-") THEN TABLE ELSE FIELD,
     target_name |-> m.object,
     start_char_in_unit |-> m.span[1],
     end_char_in_unit |-> m.span[2],
     used_fields |-> <<>>,
     ambiguous |-> (m.suggested_statement = NoNote),
     suggested_statement |-> m.suggested_statement,
     suggested_fields |-> None]

\* Step 2: one metadata record per check_banned_objects hit
BannedRecord(m, u) ==
    [table |-> None,
     target_type |-> u.type,
     target_name |-> m.object,
     start_char_in_unit |-> m.span[1],
     end_char_in_unit |-> m.span[2],
     used_fields |-> <<>>,
     ambiguous |-> FALSE,
     suggested_statement |-> m.suggested_statement,
     suggested_fields |-> None]

\* the declared name alone, without the include name
CheckedName_NoFallback(u) == u.name

\* the argument the handler passes to check_banned_objects: u.name or u.inc_name
CheckedName(u) == Or(u.name, u.inc_name)

\* the declared name scanned when there is no source text
SourceText_NameFallback(u) == Or(u.code, Or(u.name, <<>>))

\* src = u.code or ""
SourceText(u) == Or(u.code, <<>>)

Metadata(us, hs, u) ==
    [i \in 1..Len(us) |-> UsageRecord(us[i])]
        \o [i \in 1..Len(hs) |-> BannedRecord(hs[i], u)]

----------------------------------------------------------------------------
\* The client's inputs

ZPGM == <<"Z","P","G","M">>
ZINCL == <<"Z","I","N","C","L">>
ZCUSTOM_REPORT == <<"Z","C","U","S","T","O","M","_","R","E","P","O","R","T">>

\* pieces a source text is put together from
Pieces ==
    { SELECT \o <<" ">>,
      DELETE \o <<".">>,
      <<"i","n","s","e","r","t"," ">> \o KNKA \o <<".">>,
      KNKK,
      <<"k","n","k","a">>,
      Dash \o KNKLI,
      VBAK \o <<" ">> \o KNKA \o Dash \o KLIMK \o <<" ","k","n","k","l","i">>,
      <<".">>, <<"é">>,
      <<KELVIN,"n","k","a">>,
      Dash \o <<LONG_S,"a","u","f","t">> }

Names == {None, <<>>, RFDKLI30, <<"r","f","d","k","l","i","3","0">>, KNKK, ZCUSTOM_REPORT}
IncNames == {ZINCL, RFDKLI30}
Types == {PROG, TABL, RAW_CODE}

NoUnit == [pgm_name |-> None, inc_name |-> None, type |-> None,
           name |-> None, code |-> None]

----------------------------------------------------------------------------
\* State machine: a client composes one unit and posts it

Init ==
    /\ code \in {None, <<>>}
    /\ pieces = 0
    /\ pc = "compose"
    /\ unit = NoUnit
    /\ stmts = <<>>
    /\ usage = <<>>
    /\ hits = <<>>
    /\ metadata = <<>>

AppendPiece(p) ==
    /\ pc = "compose"
    /\ code # None
    /\ pieces < MaxPieces
    /\ code' = code \o p
    /\ pieces' = pieces + 1
    /\ UNCHANGED <<pc, unit, stmts, usage, hits, metadata>>

\* POST /remediate-credit-fields with the one unit; stmts is the sequence of
\* statement matches the first loop of find_obsolete_usage runs over
Post(name, inc_name, type) ==
    /\ pc = "compose"
    /\ unit' = [pgm_name |-> ZPGM, inc_name |-> inc_name, type |-> type,
                name |-> name, code |-> code]
    /\ stmts' = Finditer("STMT_RE", Or(SourceText(unit'), <<>>), 0)
    /\ usage' = find_obsolete_usage(SourceText(unit'))
    /\ hits' = check_banned_objects(CheckedName(unit'), unit'.type)
    /\ metadata' = Metadata(usage', hits', unit')
    /\ pc' = "responded"
    /\ UNCHANGED <<code, pieces>>

NewRequest ==
    /\ pc = "responded"
    /\ code' \in {None, <<>>}
    /\ pieces' = 0
    /\ pc' = "compose"
    /\ unit' = NoUnit
    /\ stmts' = <<>>
    /\ usage' = <<>>
    /\ hits' = <<>>
    /\ metadata' = <<>>

Next ==
    \/ \E p \in Pieces : AppendPiece(p)
    \/ \E n \in Names, i \in IncNames, t \in Types : Post(n, i, t)
    \/ NewRequest

Spec == Init /\ [][Next]_vars

----------------------------------------------------------------------------
\* Properties of the response

Done == pc = "responded"

\* the posted unit's source text, an absent text read as the empty text
Text == IF unit.code = None THEN <<>> ELSE unit.code

\* the scan pass of a match: 1 statement, 2 field reference, 3 table
\* reference, 4 object reference
PassOf(m) ==
    CASE m.stmt = FIELD_REF -> 2
      [] m.stmt = TABLE_REF -> 3
      [] m.stmt = OBJECT_REF -> 4
      [] OTHER -> 1

\* w stands at offset p of txt as a whole word, in any letter case
OccursAt(txt, p, w) ==
    /\ AtBoundary(txt, p)
    /\ LitAt(txt, p, w)
    /\ AtBoundary(txt, p + Len(w))

\* w stands as a whole word inside txt[s:e]
WordIn(txt, s, e, w) == \E p \in s..(e - Len(w)) : OccursAt(txt, p, w)

\* the <<offset, word>> pairs of the whole-word occurrences of words in txt
Occurrences(txt, words) ==
    {o \in {q \in 0..Len(txt) : AtBoundary(txt, q)} \X words :
        /\ LitAt(txt, o[1], o[2])
        /\ AtBoundary(txt, o[1] + Len(o[2]))}

QualifiedNames ==
    {TABLES[k] \o Dash \o FIELDS[j] : k \in 1..Len(TABLES), j \in 1..Len(FIELDS)}

\* the keys the statement pass owes for table k in the statement match m
StmtKeys(txt, m, k) ==
    LET F == {j \in 1..Len(FIELDS) : WordIn(txt, m.start, m.end, FIELDS[j])}
    IN  IF ~WordIn(txt, m.start, m.end, TABLES[k])
          THEN {}
          ELSE IF F = {} THEN {TABLES[k]}
                         ELSE {TABLES[k] \o Dash \o FIELDS[j] : j \in F}

TableIdx(key) == CHOOSE k \in 1..Len(TABLES) : TABLES[k] = KeyTable(key)
FieldIdx(key) ==
    IF key = KeyTable(key)
      THEN 0
      ELSE CHOOSE j \in 1..Len(FIELDS) : key = KeyTable(key) \o Dash \o FIELDS[j]

\* a and b are matches of one pass, and the pass discovers a before b
DiscoveredBefore(a, b) ==
    CASE PassOf(a) = 1 ->
            \/ a.span[1] < b.span[1]
            \/ /\ a.span = b.span
               /\ \/ TableIdx(a.object) < TableIdx(b.object)
                  \/ /\ TableIdx(a.object) = TableIdx(b.object)
                     /\ FieldIdx(a.object) < FieldIdx(b.object)
      [] PassOf(a) \in {2, 3} -> a.span[1] < b.span[1]
      [] OTHER -> FALSE

AllFound == usage \o hits

\* every <<pass, key, span>> the four passes owe for the posted unit
ExpectedFound ==
    UNION {UNION {{<<1, key, <<stmts[i].start, stmts[i].end>>>> :
                      key \in StmtKeys(Text, stmts[i], k)} :
                  k \in 1..Len(TABLES)} : i \in 1..Len(stmts)}
    \cup {<<2, Upper(Slice(Text, o[1], o[1] + Len(o[2]))), <<o[1], o[1] + Len(o[2])>>>> :
              o \in Occurrences(Text, QualifiedNames)}
    \cup {<<3, Upper(Slice(Text, o[1], o[1] + Len(o[2]))), <<o[1], o[1] + Len(o[2])>>>> :
              o \in Occurrences(Text, Range(TABLES))}
    \cup (IF Or(unit.name, unit.inc_name) \in Range(BannedObjectsGet(unit.type))
            THEN {<<4, unit.type \o Dash \o Or(unit.name, unit.inc_name),
                    <<0, Len(Or(unit.name, unit.inc_name))>>>>}
            ELSE {})

\* C1: the finding list of a unit is the statement pass's findings, then the
\* field-reference pass's, then the table-reference pass's, then the
\* object-reference pass's; each pass's findings stand in discovery order, and
\* the list holds every finding the passes owe, each once, none merged or
\* re-sorted by position.
C1_PassOrder ==
    Done =>
        /\ Len(metadata) = Len(AllFound)
        /\ \A i \in 1..Len(AllFound) :
              /\ metadata[i].target_name = AllFound[i].object
              /\ metadata[i].start_char_in_unit = AllFound[i].span[1]
              /\ metadata[i].end_char_in_unit = AllFound[i].span[2]
        /\ \A i, j \in 1..Len(AllFound) :
              i < j =>
                /\ PassOf(AllFound[i]) <= PassOf(AllFound[j])
                /\ PassOf(AllFound[i]) = PassOf(AllFound[j])
                      => DiscoveredBefore(AllFound[i], AllFound[j])
        /\ {<<PassOf(AllFound[i]), AllFound[i].object, AllFound[i].span>> :
               i \in 1..Len(AllFound)} = ExpectedFound

\* all four passes found something, the statement pass two findings whose
\* tables stand in the text in the other order, and a table reference stands
\* in the text before a field reference
C1_Witness ==
    /\ Done
    /\ \A q \in 1..4 : \E i \in 1..Len(AllFound) : PassOf(AllFound[i]) = q
    /\ \E i, j \in 1..Len(usage) :
          /\ i < j
          /\ PassOf(usage[i]) = 2 /\ PassOf(usage[j]) = 3
          /\ usage[j].span[1] < usage[i].span[1]
    /\ \E i, j \in 1..Len(usage) :
          /\ i < j
          /\ PassOf(usage[i]) = 1 /\ PassOf(usage[j]) = 1
          /\ KeyTable(usage[i].object) = KNKA /\ KeyTable(usage[j].object) = VBAK

\* the statement-pass entries of usage for table k and statement span sp
FindingsFor(sp, k) ==
    {n \in 1..Len(usage) :
        /\ PassOf(usage[n]) = 1
        /\ usage[n].span = sp
        /\ KeyTable(usage[n].object) = TABLES[k]}

\* C2: for every statement span and every known table T standing in it as a
\* whole word, the statement pass emits one finding keyed T-field per known
\* field standing in the span as a whole word, or one finding keyed T when no
\* field does; every statement finding carries a whole statement's span, and
\* a table that does not stand in the span gets no finding for it.
C2_StatementFindings ==
    Done =>
        /\ \A n \in 1..Len(usage) :
              PassOf(usage[n]) = 1 =>
                \E i \in 1..Len(stmts) :
                    usage[n].span = <<stmts[i].start, stmts[i].end>>
        /\ \A i \in 1..Len(stmts), k \in 1..Len(TABLES) :
              LET m == stmts[i]
                  sp == <<m.start, m.end>>
                  F == {j \in 1..Len(FIELDS) : WordIn(Text, m.start, m.end, FIELDS[j])}
                  E == FindingsFor(sp, k)
              IN  IF WordIn(Text, m.start, m.end, TABLES[k])
                    THEN IF F # {}
                           THEN /\ Cardinality(E) = Cardinality(F)
                                /\ \A j \in F : \E n \in E :
                                      usage[n].object = TABLES[k] \o Dash \o FIELDS[j]
                           ELSE /\ Cardinality(E) = 1
                                /\ \A n \in E : usage[n].object = TABLES[k]
                    ELSE E = {}

\* a statement in which one table stands with two fields, and another table
\* does not stand
C2_Witness ==
    /\ Done
    /\ \E i \in 1..Len(stmts), k, k2 \in 1..Len(TABLES) :
          /\ WordIn(Text, stmts[i].start, stmts[i].end, TABLES[k])
          /\ ~WordIn(Text, stmts[i].start, stmts[i].end, TABLES[k2])
          /\ Cardinality({j \in 1..Len(FIELDS) :
                WordIn(Text, stmts[i].start, stmts[i].end, FIELDS[j])}) = 2
          /\ Cardinality(FindingsFor(<<stmts[i].start, stmts[i].end>>, k)) = 2

\* C3: for every field-reference finding keyed T-F with span [s, e) the same
\* output holds a table-reference finding keyed T with span [s, s + len(T)).
C3_OverlapPreserved ==
    Done =>
        \A n \in 1..Len(usage) :
            usage[n].stmt = FIELD_REF =>
                \E q \in 1..Len(usage) :
                    /\ q <= Len(metadata)
                    /\ usage[q].stmt = TABLE_REF
                    /\ metadata[q].target_name = KeyTable(metadata[n].target_name)
                    /\ metadata[q].start_char_in_unit = metadata[n].start_char_in_unit
                    /\ metadata[q].end_char_in_unit =
                          metadata[n].start_char_in_unit
                              + Len(KeyTable(metadata[n].target_name))

\* the text KNKK-KNKLI, with its field-reference and its table-reference finding
C3_Witness ==
    /\ Done
    /\ Text = KNKK \o Dash \o KNKLI
    /\ \E n, q \in 1..Len(usage) :
          /\ usage[n].stmt = FIELD_REF /\ usage[n].object = KNKK \o Dash \o KNKLI
          /\ usage[q].stmt = TABLE_REF /\ usage[q].object = KNKK

\* C4: a finding is ambiguous exactly when it has no suggested text, and the
\* suggested text of a finding of the three text passes is the catalogue's
\* entry for its key.
C4_Ambiguous ==
    Done =>
        \A i \in 1..Len(metadata) :
            /\ metadata[i].ambiguous <=> (metadata[i].suggested_statement = NoNote)
            /\ i <= Len(usage) =>
                  metadata[i].suggested_statement = ReplacementsGet(metadata[i].target_name)

\* the text KNKK-KNKLI: its table reference to KNKK is ambiguous, its field
\* reference has the catalogue's entry for KNKK-KNKLI
C4_Witness ==
    /\ Done
    /\ \E i \in 1..Len(usage) :
          /\ usage[i].stmt = TABLE_REF
          /\ metadata[i].target_name = KNKK
          /\ metadata[i].ambiguous
    /\ \E i \in 1..Len(usage) :
          /\ usage[i].stmt = FIELD_REF
          /\ ~metadata[i].ambiguous
          /\ metadata[i].suggested_statement = REPLACEMENTS[1][2]

\* C5: for a unit with a declared name N and category C the object identity
\* check emits one finding when N is, letter for letter, in the banned list of
\* C and none otherwise; the finding has key C-N, span 0 to len(N), is not
\* ambiguous and carries the elimination note.
C5_ObjectIdentity ==
    (Done /\ unit.name # None /\ unit.name # <<>>) =>
        LET N == unit.name
            C == unit.type
            L == BannedObjectsGet(C)
        IN  /\ Len(metadata) = Len(usage) + Len(hits)
            /\ IF \E k \in 1..Len(L) : L[k] = N
                 THEN /\ Len(hits) = 1
                      /\ hits[1].stmt = OBJECT_REF
                      /\ LET r == metadata[Len(metadata)]
                         IN  /\ r.target_name = C \o Dash \o N
                             /\ r.start_char_in_unit = 0
                             /\ r.end_char_in_unit = Len(N)
                             /\ r.ambiguous = FALSE
                             /\ r.suggested_statement = ELIMINATE_NOTE
                 ELSE hits = <<>>

\* the banned program RFDKLI30 posted by its declared name
C5_Witness ==
    /\ Done
    /\ unit.name = RFDKLI30
    /\ unit.type = PROG
    /\ Len(hits) = 1
    /\ metadata[Len(metadata)].target_name = PROG \o Dash \o RFDKLI30

\* C6 as claimed: every finding record has target kind TABLE or FIELD, FIELD
\* exactly when its key has a "-".
C6_Claimed ==
    Done =>
        \A i \in 1..Len(metadata) :
            /\ metadata[i].target_type \in {TABLE, FIELD}
            /\ metadata[i].target_type = FIELD <=> Contains(metadata[i].target_name, "-")

\* C6 amended: every finding record of the statement, field-reference and
\* table-reference passes has target kind TABLE or FIELD, FIELD exactly when
\* its key has a "-"; an object-reference record has the unit's category as
\* its target kind.
C6_TargetKind ==
    Done =>
        \A i \in 1..Len(metadata) :
            IF i <= Len(usage)
              THEN /\ metadata[i].target_type \in {TABLE, FIELD}
                   /\ metadata[i].target_type = FIELD
                          <=> Contains(metadata[i].target_name, "-")
              ELSE metadata[i].target_type = unit.type

\* a response with a TABLE record, a FIELD record and an object-reference record
C6_Witness ==
    /\ Done
    /\ \E i \in 1..Len(usage) : metadata[i].target_type = TABLE
    /\ \E i \in 1..Len(usage) : metadata[i].target_type = FIELD
    /\ Len(hits) = 1
    /\ metadata[Len(metadata)].target_type = PROG

\* C7 as claimed: the offsets of every finding, the object-reference finding
\* included, lie within the unit's source text: 0 <= start <= end <= len.
C7_Claimed ==
    Done =>
        \A i \in 1..Len(metadata) :
            /\ 0 <= metadata[i].start_char_in_unit
            /\ metadata[i].start_char_in_unit <= metadata[i].end_char_in_unit
            /\ metadata[i].end_char_in_unit <= Len(Text)

\* C7 amended: the offsets of every finding of the statement, field-reference
\* and table-reference passes lie within the unit's source text,
\* 0 <= start <= end <= len; an object-reference finding has start 0 and as
\* its end the length of the checked name, whatever the length of the text.
C7_Offsets ==
    Done =>
        \A i \in 1..Len(metadata) :
            IF i <= Len(usage)
              THEN /\ 0 <= metadata[i].start_char_in_unit
                   /\ metadata[i].start_char_in_unit <= metadata[i].end_char_in_unit
                   /\ metadata[i].end_char_in_unit <= Len(Text)
              ELSE /\ metadata[i].start_char_in_unit = 0
                   /\ metadata[i].end_char_in_unit = Len(Or(unit.name, unit.inc_name))

\* a table reference that ends where the text ends, and an object-reference
\* finding whose end lies past the end of the text
C7_Witness ==
    /\ Done
    /\ \E i \in 1..Len(usage) :
          /\ usage[i].stmt = TABLE_REF
          /\ metadata[i].end_char_in_unit = Len(Text)
    /\ Len(hits) = 1
    /\ metadata[Len(metadata)].end_char_in_unit > Len(Text)

\* C8 as claimed: a unit without a declared name gets no object-reference
\* finding, whatever its category and include name.
C8_Claimed ==
    (Done /\ unit.name = None) => (hits = <<>> /\ Len(metadata) = Len(usage))

\* C8 amended: a unit without a declared name is checked by its include name:
\* it gets one object-reference finding, keyed category-include name, when the
\* include name is in the banned list of its category, and none otherwise; the
\* request completes either way.
C8_AbsentName ==
    (Done /\ unit.name \in {None, <<>>}) =>
        LET I == unit.inc_name
            L == BannedObjectsGet(unit.type)
        IN  /\ Len(metadata) = Len(usage) + Len(hits)
            /\ IF \E k \in 1..Len(L) : L[k] = I
                 THEN /\ Len(hits) = 1
                      /\ metadata[Len(metadata)].target_name = unit.type \o Dash \o I
                      /\ metadata[Len(metadata)].end_char_in_unit = Len(I)
                 ELSE hits = <<>>

\* a unit without a declared name whose include is the banned program RFDKLI30
C8_Witness ==
    /\ Done
    /\ unit.name = None
    /\ unit.inc_name = RFDKLI30
    /\ unit.type = PROG
    /\ Len(hits) = 1

\* C9: a unit whose source text is empty or absent gets no statement, field-
\* reference or table-reference finding: its finding list holds at most the
\* object-reference finding.
C9_EmptyText ==
    (Done /\ unit.code \in {None, <<>>}) =>
        /\ stmts = <<>>
        /\ usage = <<>>
        /\ Len(metadata) <= 1
        /\ \A i \in 1..Len(metadata) : metadata[i].target_type = unit.type

\* a unit without source text, declared as the banned table KNKK, with its one
\* object-reference finding
C9_Witness ==
    /\ Done
    /\ unit.code = None
    /\ unit.name = KNKK
    /\ unit.type = TABL
    /\ Len(metadata) = 1

\* the end offset C10 claims for a statement whose keyword ends at offset q:
\* the nearest "." after the keyword, or the end of the text
ClaimedEnd(txt, q) ==
    LET ds == {d \in (q + 1)..Len(txt) : txt[d] = "."}
    IN  IF ds = {} THEN Len(txt) ELSE Min(ds)

\* C10 as claimed: every statement span starts at a whole-word SELECT, UPDATE,
\* INSERT or DELETE and ends at the nearest "." after the keyword, or at the
\* end of the text when none follows, so it has no "." but as its last
\* character; the spans of a unit are disjoint and found in increasing order.
C10_Claimed ==
    Done =>
        /\ \A i \in 1..Len(stmts) :
              LET m == stmts[i]
              IN  /\ \E k \in 1..Len(KEYWORDS) : OccursAt(Text, m.start, KEYWORDS[k])
                  /\ m.end = ClaimedEnd(Text, m.start + Len(m.g1))
                  /\ \A d \in (m.start + 1)..(m.end - 1) : Text[d] # "."
        /\ \A i, j \in 1..Len(stmts) : i < j => stmts[i].end <= stmts[j].start

====
